---- MODULE Spec2Model ----
(***************************************************************************)
(* Event-sourced health record model of mikeoz/myb-dy-health.              *)
(*                                                                         *)
(* The shared durable store is the set of Postgres tables declared in the  *)
(* migrations; every table is a sequence of rows and a row's id is its     *)
(* position, so ids are unique and never reused.  Row-level security is    *)
(* modelled by the Visible* operators (SELECT policies) and by the guards  *)
(* of the insert steps (INSERT policies, foreign keys).                    *)
(*                                                                         *)
(* Every request handler is a process that performs one database request   *)
(* per step (one step per `await`), so two handlers interleave exactly     *)
(* where the code can be interleaved.                                      *)
(***************************************************************************)
EXTENDS Integers, Sequences, FiniteSets, TLC

(***************************************************************************)
(* Bounds of the model.                                                    *)
(***************************************************************************)
MaxOps == 2          \* handlers started in one behaviour, overlapping allowed
MaxSeqOps == 3       \* handlers started in one behaviour, one at a time
MaxFailures == 1     \* storage failures injected in one behaviour
MaxTime == 2         \* client-side timestamps range over 1..MaxTime

Procs == {1, 2}      \* concurrent requests (browser tabs / devices)
Users == {"A", "B"}  \* auth.users
Times == 1..MaxTime

(***************************************************************************)
(* JSON values of the `details` column and nullable text columns.          *)
(* S(x) is the JSON string x, JNull is JSON null.  A uuid is a JSON        *)
(* string whose content is the row id.                                     *)
(***************************************************************************)
S(x) == [s |-> x]
JNull == [null |-> TRUE]
IsString(v) == DOMAIN v = {"s"}
\* JavaScript truthiness of a string: "" is falsy
Truthy(str) == str # ""
\* `a || b` on strings
OrElse(a, b) == IF Truthy(a) THEN a ELSE b
\* `a || null` on strings
OrNull(a) == IF Truthy(a) THEN S(a) ELSE JNull

VARIABLES
    data_sources,        \* public.data_sources
    consent_agreements,  \* public.consent_agreements
    consent_snapshots,   \* public.consent_snapshots
    provenance,          \* public.provenance
    timeline_events,     \* public.timeline_events
    document_artifacts,  \* public.document_artifacts
    audit_events,        \* public.audit_events
    jobs,                \* public.jobs
    blobs,               \* storage bucket "documents": set of object paths
    now,                 \* database clock, now()
    proc,                \* per request: position and local variables
    budget               \* what is left of the bounds of the exploration

tables == <<data_sources, consent_agreements, consent_snapshots, provenance,
            timeline_events, document_artifacts, audit_events, jobs>>
vars == <<data_sources, consent_agreements, consent_snapshots, provenance,
          timeline_events, document_artifacts, audit_events, jobs, blobs,
          now, proc, budget>>

Range(seq) == {seq[i] : i \in 1..Len(seq)}
Ids(table) == 1..Len(table)

(***************************************************************************)
(* Row-level security: SELECT policies.                                    *)
(***************************************************************************)
VisibleDataSources(uid) ==
    {r \in Range(data_sources) : uid = r.user_id}
VisibleConsentAgreements(uid) ==
    {r \in Range(consent_agreements) : uid = r.user_id}
VisibleConsentSnapshots(uid) ==
    {r \in Range(consent_snapshots) :
        \E ca \in Range(consent_agreements) :
            ca.id = r.consent_agreement_id /\ ca.user_id = uid}
VisibleProvenance(uid) ==
    {r \in Range(provenance) :
        \E ds \in Range(data_sources) :
            ds.id = r.data_source_id /\ ds.user_id = uid}
\* a table without its SELECT policy
UnfilteredTimelineEvents(uid) == Range(timeline_events)
VisibleTimelineEvents(uid) ==
    {r \in Range(timeline_events) : uid = r.user_id}
VisibleDocumentArtifacts(uid) ==
    {r \in Range(document_artifacts) : uid = r.user_id}

(***************************************************************************)
(* PostgREST result shaping.  maybeSingle() yields the row when exactly    *)
(* one row matches, and null data otherwise (no row, or an error because   *)
(* several rows match); single() is an error unless exactly one row        *)
(* matches.  NoRow stands for null data.                                   *)
(***************************************************************************)
NoRow == [id |-> 0]
maybeSingle(rows) ==
    IF Cardinality(rows) = 1 THEN CHOOSE r \in rows : TRUE ELSE NoRow
single(rows) ==
    IF Cardinality(rows) = 1
    THEN [error |-> FALSE, data |-> CHOOSE r \in rows : TRUE]
    ELSE [error |-> TRUE, data |-> NoRow]

(***************************************************************************)
(* Request-local state.                                                    *)
(***************************************************************************)
NoInput == [kind |-> "none"]
Idle == [pc |-> "idle", op |-> "none", user |-> "none", input |-> NoInput,
         target |-> 0, dataSourceId |-> 0, agreementId |-> 0,
         consentSnapshotId |-> 0, provenanceId |-> 0, artifactId |-> 0,
         eventId |-> 0, storagePath |-> 0, outcome |-> "none"]

Init ==
    /\ data_sources = <<>>
    /\ consent_agreements = <<>>
    /\ consent_snapshots = <<>>
    /\ provenance = <<>>
    /\ timeline_events = <<>>
    /\ document_artifacts = <<>>
    /\ audit_events = <<>>
    /\ jobs = <<>>
    /\ blobs = {}
    /\ now = 1
    /\ proc = [p \in Procs |-> Idle]
    /\ budget = [ops |-> MaxOps, overlap |-> TRUE, failures |-> MaxFailures]

(***************************************************************************)
(* Row-level security: INSERT policies, together with the foreign keys of  *)
(* the inserted row.  uid is auth.uid() of the request.                    *)
(***************************************************************************)
\* the INSERT policy together with a unique key on (user_id, type, name)
data_sources_insert_unique(uid, row) ==
    /\ uid = row.user_id
    /\ ~\E r \in Range(data_sources) :
          r.user_id = row.user_id /\ r.type = row.type /\ r.name = row.name
data_sources_insert_ok(uid, row) == uid = row.user_id
consent_agreements_insert_ok(uid, row) == uid = row.user_id
consent_snapshots_insert_ok(uid, row) ==
    \E ca \in Range(consent_agreements) :
        ca.id = row.consent_agreement_id /\ ca.user_id = uid
provenance_insert_ok(uid, row) ==
    \E ds \in Range(data_sources) :
        ds.id = row.data_source_id /\ ds.user_id = uid
\* the INSERT policy alone, without the foreign keys
timeline_events_insert_unreferenced(uid, row) == uid = row.user_id
timeline_events_insert_ok(uid, row) ==
    /\ uid = row.user_id
    /\ row.provenance_id \in Ids(provenance)
    /\ row.consent_snapshot_id \in Ids(consent_snapshots)
document_artifacts_insert_ok(uid, row) ==
    /\ uid = row.user_id
    /\ row.provenance_id \in Ids(provenance)
audit_events_insert_ok(uid, row) == uid = row.user_id
jobs_insert_ok(uid, row) ==
    /\ uid = row.user_id
    /\ ~\E j \in Range(jobs) :
          j.user_id = row.user_id /\ j.idempotency_key = row.idempotency_key

(***************************************************************************)
(* Form inputs.  Strings are kept short; "" is the empty input.            *)
(* eventDateTime 0 stands for a string that new Date() cannot parse.       *)
(***************************************************************************)
JournalInputs ==
    { [kind |-> "journal", title |-> "", entryText |-> "x",
       category |-> "symptom", eventDateTime |-> 1],
      [kind |-> "journal", title |-> "A", entryText |-> "x",
       category |-> "", eventDateTime |-> 2],
      [kind |-> "journal", title |-> "", entryText |-> "x",
       category |-> "", eventDateTime |-> 0] }

JournalAmendInputs ==
    { [kind |-> "amend_journal", title |-> "", text |-> "y",
       category |-> "", note |-> ""],
      [kind |-> "amend_journal", title |-> "B", text |-> "y",
       category |-> "mood", note |-> ""] }

DocumentAmendInputs ==
    { [kind |-> "amend_document", title |-> "B", docType |-> "imaging",
       notes |-> ""],
      [kind |-> "amend_document", title |-> "B", docType |-> "",
       notes |-> "m"] }

\* documentDate 0 stands for a string that new Date() cannot parse
UploadInputs ==
    { [kind |-> "upload", title |-> "D", docType |-> "lab", notes |-> "n",
       documentDate |-> 1],
      [kind |-> "upload", title |-> "D", docType |-> "lab", notes |-> "",
       documentDate |-> 0] }

(***************************************************************************)
(* Titles are sequences of tokens so that the "Amended: " prefix written   *)
(* by the amendment handlers and stripped by the details page is a real    *)
(* string operation.                                                       *)
(***************************************************************************)
AmendedPrefix == "Amended: "
Title(str) == IF str = "" THEN <<>> ELSE <<str>>

(***************************************************************************)
(* event-details.ts: safe accessors of the details JSON.                   *)
(***************************************************************************)
getString(details, key) ==
    IF details # JNull /\ key \in DOMAIN details /\ IsString(details[key])
    THEN details[key]
    ELSE JNull
getOptionalCategory(details) == getString(details, "category")
getDocumentArtifactId(details) == getString(details, "document_artifact_id")
getAmendsEventId(details) == getString(details, "amends_event_id")
getText(details) == getString(details, "text")
getDocType(details) == getString(details, "doc_type")
getNotes(details) == getString(details, "notes")

(***************************************************************************)
(* Starting a handler.  A second request is distinguishable from the       *)
(* first only while they overlap, so request 2 starts only while request 1 *)
(* is running; user names are interchangeable, so request 1 is user "A".   *)
(***************************************************************************)
CanStart(p) ==
    /\ proc[p].pc = "idle"
    /\ budget.ops > 0
    /\ p = 2 => budget.overlap /\ proc[1].pc # "idle"

Callers(p) == IF p = 1 /\ budget.overlap THEN {"A"} ELSE Users

Begin(p, op, uid, input, target, pc) ==
    /\ proc' = [proc EXCEPT ![p] =
                  [Idle EXCEPT !.pc = pc, !.op = op, !.user = uid,
                               !.input = input, !.target = target,
                               !.storagePath =
                                   IF op = "upload" THEN <<uid, budget.ops>>
                                   ELSE <<>>]]
    /\ budget' = [budget EXCEPT !.ops = @ - 1]
    /\ UNCHANGED <<tables, blobs, now>>

(***************************************************************************)
(* A request that fails.  The handler's catch block reports the error; the *)
(* upload handler first tries to remove the blob it stored.  A request     *)
(* fails when the store is unavailable (bounded by the failure budget) or  *)
(* when the store rejects it (accepted = FALSE).                           *)
(***************************************************************************)
\* a catch block that reports the failure without the cleanup
Thrown_noCleanup(p) ==
    [proc EXCEPT ![p].pc = "done", ![p].outcome = "error"]

Thrown(p) ==
    [proc EXCEPT ![p].pc = IF proc[p].op = "upload" THEN "up_cleanup"
                           ELSE "done",
                 ![p].outcome = "error"]

Fails(p, accepted) ==
    /\ ~accepted \/ budget.failures > 0
    /\ budget' = IF accepted THEN [budget EXCEPT !.failures = @ - 1]
                 ELSE budget
    /\ proc' = Thrown(p)
    /\ UNCHANGED <<tables, blobs, now>>

\* JournalEntryForm.onSubmit up to the first request
JournalSubmit(p) ==
    /\ CanStart(p)
    /\ \E uid \in Callers(p), data \in JournalInputs :
          Begin(p, "journal", uid, data, 0, "ds_select")

canAmend(event) ==
    event.event_type = "journal_entry" \/ event.event_type = "document_uploaded"

\* the "Amend" button offered on events of any owner
OpenAmendModal_anyOwner(p) ==
    /\ CanStart(p)
    /\ \E uid \in Callers(p) :
         \E event \in Range(timeline_events) :
            /\ canAmend(event)
            /\ proc' = [proc EXCEPT ![p] =
                          [Idle EXCEPT !.pc = "modal_open", !.op = "amend",
                                       !.user = uid, !.target = event.id]]
    /\ UNCHANGED <<tables, blobs, now, budget>>
\* EventDetails: the "Amend" button, shown when canAmend, opens the modal
OpenAmendModal(p) ==
    /\ CanStart(p)
    /\ \E uid \in Callers(p) :
         \E event \in VisibleTimelineEvents(uid) :
            /\ canAmend(event)
            /\ proc' = [proc EXCEPT ![p] =
                          [Idle EXCEPT !.pc = "modal_open", !.op = "amend",
                                       !.user = uid, !.target = event.id]]
    /\ UNCHANGED <<tables, blobs, now, budget>>

\* the route /event/:id changes (browser history) while the page stays
\* mounted: isAmendModalOpen keeps its value and the modal is rendered for
\* the event now loaded
NavigateEvent(p) ==
    /\ proc[p].pc = "modal_open"
    /\ \E event \in VisibleTimelineEvents(proc[p].user) :
          /\ event.id # proc[p].target
          /\ proc' = [proc EXCEPT ![p].target = event.id]
    /\ UNCHANGED <<tables, blobs, now, budget>>

\* AmendmentModal: the form is chosen by isJournal, then submitted
AmendSubmit(p) ==
    /\ proc[p].pc = "modal_open"
    /\ budget.ops > 0
    /\ LET event == timeline_events[proc[p].target]
           isJournal == event.event_type = "journal_entry"
       IN IF isJournal
          THEN \E data \in JournalAmendInputs :
                  proc' = [proc EXCEPT ![p].op = "amend_journal",
                                       ![p].input = data,
                                       ![p].pc = "ds_select"]
          ELSE \E data \in DocumentAmendInputs :
                  proc' = [proc EXCEPT ![p].op = "amend_document",
                                       ![p].input = data,
                                       ![p].pc = "ds_select"]
    /\ budget' = [budget EXCEPT !.ops = @ - 1]
    /\ UNCHANGED <<tables, blobs, now>>

\* Timeline.handleCreateSummary for the events selected in review mode
CreateSummary(p) ==
    /\ CanStart(p)
    /\ \E uid \in Callers(p) :
         \E event \in VisibleTimelineEvents(uid) :
            Begin(p, "visit_summary", uid,
                  [kind |-> "visit_summary", title |-> "V", summary |-> "v",
                   label |-> "", eventIds |-> <<event.id>>],
                  0, "ds_select")

\* DocumentUploadForm.onSubmit with a file selected
UploadSubmit(p) ==
    /\ CanStart(p)
    /\ \E uid \in Callers(p), data \in UploadInputs :
          Begin(p, "upload", uid, data, 0, "up_put")

(***************************************************************************)
(* The order of the steps of each handler.                                 *)
(***************************************************************************)
AfterDataSource(op) == IF op = "upload" THEN "prov_insert" ELSE "ca_select"
AfterAgreementInsert(op) == IF op = "upload" THEN "cs_insert" ELSE "cs_select"
AfterSnapshot(op) == IF op = "upload" THEN "event_insert" ELSE "prov_insert"
AfterProvenance(op) == IF op = "upload" THEN "artifact_insert" ELSE "event_insert"

(***************************************************************************)
(* write-helpers.ts (and the same statements inlined in the upload form)   *)
(***************************************************************************)
DataSourceName(op) ==
    CASE op = "journal" -> "User Journal"
      [] op = "amend_journal" -> "User Journal Amendment"
      [] op = "amend_document" -> "Document Amendment"
      [] op = "visit_summary" -> "User Curated"
      [] op = "upload" -> "User Upload"
DataSourceType(op) == IF op = "upload" THEN "upload" ELSE "manual"

NewDataSource(uid, type, name, provider, status) ==
    [id |-> Len(data_sources) + 1, user_id |-> uid, type |-> type,
     name |-> name, provider |-> provider, status |-> status,
     connection_state |-> "disconnected", last_sync_at |-> 0,
     last_sync_status |-> "NULL", last_error_code |-> "NULL",
     last_error_at |-> 0]

getOrCreateDataSource_select(p) ==
    /\ proc[p].pc = "ds_select"
    /\ LET me == proc[p]
           existing == maybeSingle(
               {r \in VisibleDataSources(me.user) :
                   /\ r.user_id = me.user
                   /\ r.type = DataSourceType(me.op)
                   /\ r.name = DataSourceName(me.op)})
       IN IF existing # NoRow
          THEN proc' = [proc EXCEPT ![p].dataSourceId = existing.id,
                                    ![p].pc = AfterDataSource(me.op)]
          ELSE proc' = [proc EXCEPT ![p].pc = "ds_insert"]
    /\ UNCHANGED <<tables, blobs, now, budget>>

getOrCreateDataSource_insert(p) ==
    /\ proc[p].pc = "ds_insert"
    /\ LET me == proc[p]
           row == NewDataSource(me.user, DataSourceType(me.op),
                                DataSourceName(me.op), "NULL", "active")
           accepted == data_sources_insert_ok(me.user, row)
       IN \/ /\ accepted
             /\ data_sources' = Append(data_sources, row)
             /\ now' = now + 1
             /\ proc' = [proc EXCEPT ![p].dataSourceId = row.id,
                                     ![p].pc = AfterDataSource(me.op)]
             /\ UNCHANGED <<consent_agreements, consent_snapshots, provenance,
                            timeline_events, document_artifacts, audit_events,
                            jobs, blobs, budget>>
          \/ Fails(p, accepted)

DefaultScope == "health_data_storage"
DefaultPermissions == "store_health_data,create_timeline_events"

getOrCreateDefaultConsentSnapshot_agreementSelect(p) ==
    /\ proc[p].pc = "ca_select"
    /\ LET me == proc[p]
           existingAgreement == maybeSingle(
               {r \in VisibleConsentAgreements(me.user) : r.user_id = me.user})
       IN IF existingAgreement # NoRow
          THEN proc' = [proc EXCEPT ![p].agreementId = existingAgreement.id,
                                    ![p].pc = "cs_select"]
          ELSE proc' = [proc EXCEPT ![p].pc = "ca_insert"]
    /\ UNCHANGED <<tables, blobs, now, budget>>

getOrCreateDefaultConsentSnapshot_agreementInsert(p) ==
    /\ proc[p].pc = "ca_insert"
    /\ LET me == proc[p]
           row == [id |-> Len(consent_agreements) + 1, user_id |-> me.user,
                   scope |-> DefaultScope]
           accepted == consent_agreements_insert_ok(me.user, row)
       IN \/ /\ accepted
             /\ consent_agreements' = Append(consent_agreements, row)
             /\ now' = now + 1
             /\ proc' = [proc EXCEPT ![p].agreementId = row.id,
                                     ![p].pc = AfterAgreementInsert(me.op)]
             /\ UNCHANGED <<data_sources, consent_snapshots, provenance,
                            timeline_events, document_artifacts, audit_events,
                            jobs, blobs, budget>>
          \/ Fails(p, accepted)

\* .order("created_at", {ascending: false}).limit(1): a row with the
\* greatest created_at; which one of several equal rows comes first is not
\* determined
LatestSnapshots(rows) ==
    {r \in rows : \A o \in rows : o.created_at <= r.created_at}

getOrCreateDefaultConsentSnapshot_snapshotSelect(p) ==
    /\ proc[p].pc = "cs_select"
    /\ LET me == proc[p]
           matching == {r \in VisibleConsentSnapshots(me.user) :
                           r.consent_agreement_id = me.agreementId}
       IN IF matching # {}
          THEN \E existingSnapshot \in LatestSnapshots(matching) :
                  proc' = [proc EXCEPT
                             ![p].consentSnapshotId = existingSnapshot.id,
                             ![p].pc = AfterSnapshot(me.op)]
          ELSE proc' = [proc EXCEPT ![p].pc = "cs_insert"]
    /\ UNCHANGED <<tables, blobs, now, budget>>

getOrCreateDefaultConsentSnapshot_snapshotInsert(p) ==
    /\ proc[p].pc = "cs_insert"
    /\ LET me == proc[p]
           row == [id |-> Len(consent_snapshots) + 1,
                   consent_agreement_id |-> me.agreementId,
                   permissions |-> DefaultPermissions, created_at |-> now]
           accepted == consent_snapshots_insert_ok(me.user, row)
       IN \/ /\ accepted
             /\ consent_snapshots' = Append(consent_snapshots, row)
             /\ now' = now + 1
             /\ proc' = [proc EXCEPT ![p].consentSnapshotId = row.id,
                                     ![p].pc = AfterSnapshot(me.op)]
             /\ UNCHANGED <<data_sources, consent_agreements, provenance,
                            timeline_events, document_artifacts, audit_events,
                            jobs, blobs, budget>>
          \/ Fails(p, accepted)

(***************************************************************************)
(* The provenance insert of the journal, amendment, visit-summary and      *)
(* upload handlers.                                                        *)
(***************************************************************************)
\* every provenance recorded as an upload
ProvenanceMethod_upload(op) == "upload"

ProvenanceMethod(op) ==
    CASE op = "journal" -> "manual_entry"
      [] op = "amend_journal" -> "manual_amendment"
      [] op = "amend_document" -> "manual_amendment"
      [] op = "visit_summary" -> "manual_entry"
      [] op = "upload" -> "upload"

createProvenance(p) ==
    /\ proc[p].pc = "prov_insert"
    /\ LET me == proc[p]
           row == [id |-> Len(provenance) + 1,
                   data_source_id |-> me.dataSourceId,
                   method |-> ProvenanceMethod(me.op), captured_at |-> now]
           accepted == provenance_insert_ok(me.user, row)
       IN \/ /\ accepted
             /\ provenance' = Append(provenance, row)
             /\ now' = now + 1
             /\ proc' = [proc EXCEPT ![p].provenanceId = row.id,
                                     ![p].pc = AfterProvenance(me.op)]
             /\ UNCHANGED <<data_sources, consent_agreements,
                            consent_snapshots, timeline_events,
                            document_artifacts, audit_events, jobs, blobs,
                            budget>>
          \/ Fails(p, accepted)

(***************************************************************************)
(* DocumentUploadForm.onSubmit: the blob, the artifact row, the cleanup.   *)
(***************************************************************************)
\* storage INSERT/DELETE policy: the first folder of the path is auth.uid()
storage_ok(uid, path) == path[1] = uid

uploadBlob(p) ==
    /\ proc[p].pc = "up_put"
    /\ LET me == proc[p]
           accepted == storage_ok(me.user, me.storagePath)
                       /\ me.storagePath \notin blobs
       IN \/ /\ accepted
             /\ blobs' = blobs \cup {me.storagePath}
             /\ proc' = [proc EXCEPT ![p].pc = "ds_select"]
             /\ UNCHANGED <<tables, now, budget>>
          \/ Fails(p, accepted)

insertDocumentArtifact(p) ==
    /\ proc[p].pc = "artifact_insert"
    /\ LET me == proc[p]
           row == [id |-> Len(document_artifacts) + 1, user_id |-> me.user,
                   provenance_id |-> me.provenanceId,
                   storage_path |-> me.storagePath,
                   title |-> me.input.title, doc_type |-> me.input.docType,
                   occurred_at |-> me.input.documentDate,
                   created_at |-> now]
           \* new Date(documentDate).toISOString() throws on a bad date
           accepted == /\ me.input.documentDate # 0
                       /\ document_artifacts_insert_ok(me.user, row)
       IN \/ /\ accepted
             /\ document_artifacts' = Append(document_artifacts, row)
             /\ now' = now + 1
             /\ proc' = [proc EXCEPT ![p].artifactId = row.id,
                                     ![p].pc = "ca_select"]
             /\ UNCHANGED <<data_sources, consent_agreements,
                            consent_snapshots, provenance, timeline_events,
                            audit_events, jobs, blobs, budget>>
          \/ Fails(p, accepted)

\* catch block: remove the stored blob; a failure of the removal is only
\* logged
cleanupBlob(p) ==
    /\ proc[p].pc = "up_cleanup"
    /\ \/ /\ blobs' = IF storage_ok(proc[p].user, proc[p].storagePath)
                      THEN blobs \ {proc[p].storagePath} ELSE blobs
          /\ UNCHANGED budget
       \/ /\ budget.failures > 0
          /\ budget' = [budget EXCEPT !.failures = @ - 1]
          /\ UNCHANGED blobs
    /\ proc' = [proc EXCEPT ![p].pc = "done"]
    /\ UNCHANGED <<tables, now>>

(***************************************************************************)
(* The timeline event each handler builds.  clientNow is the browser's     *)
(* new Date(), which is not the database clock.                            *)
(***************************************************************************)
TitleText(title) == IF title = JNull THEN <<>> ELSE title.s

JournalEvent(me) ==
    [id |-> Len(timeline_events) + 1, user_id |-> me.user,
     provenance_id |-> me.provenanceId,
     consent_snapshot_id |-> me.consentSnapshotId,
     event_type |-> "journal_entry",
     event_time |-> me.input.eventDateTime,
     title |-> S(Title(OrElse(me.input.title, "Journal entry"))),
     summary |-> me.input.entryText,
     details |-> [text |-> S(me.input.entryText),
                  category |-> S(OrElse(me.input.category, "other"))],
     created_at |-> now]

DocumentEvent(me) ==
    [id |-> Len(timeline_events) + 1, user_id |-> me.user,
     provenance_id |-> me.provenanceId,
     consent_snapshot_id |-> me.consentSnapshotId,
     event_type |-> "document_uploaded",
     event_time |-> me.input.documentDate,
     title |-> S(Title(me.input.title)),
     summary |-> "Uploaded document",
     details |-> [document_artifact_id |-> S(me.artifactId),
                  doc_type |-> S(me.input.docType),
                  notes |-> OrNull(me.input.notes)],
     created_at |-> now]

JournalAmendmentEvent(me, event, clientNow) ==
    [id |-> Len(timeline_events) + 1, user_id |-> me.user,
     provenance_id |-> me.provenanceId,
     consent_snapshot_id |-> me.consentSnapshotId,
     event_type |-> "event_amended",
     event_time |-> clientNow,
     title |-> S(<<AmendedPrefix>> \o
                 (IF Truthy(me.input.title) THEN Title(me.input.title)
                  ELSE IF TitleText(event.title) # <<>>
                       THEN TitleText(event.title)
                       ELSE Title("Journal entry"))),
     summary |-> me.input.text,
     details |-> [amends_event_id |-> S(event.id),
                  amended_event_type |-> S("journal_entry"),
                  text |-> S(me.input.text),
                  category |-> OrNull(me.input.category),
                  original_event_time |-> S(event.event_time),
                  note |-> OrNull(me.input.note)],
     created_at |-> now]

DocumentAmendmentEvent(me, event, clientNow) ==
    [id |-> Len(timeline_events) + 1, user_id |-> me.user,
     provenance_id |-> me.provenanceId,
     consent_snapshot_id |-> me.consentSnapshotId,
     event_type |-> "event_amended",
     event_time |-> clientNow,
     title |-> S(<<AmendedPrefix>> \o Title(me.input.title)),
     summary |-> "Updated document details",
     details |-> [amends_event_id |-> S(event.id),
                  amended_event_type |-> S("document_uploaded"),
                  document_artifact_id |-> getDocumentArtifactId(event.details),
                  title |-> S(me.input.title),
                  doc_type |-> S(me.input.docType),
                  notes |-> OrNull(me.input.notes)],
     created_at |-> now]

VisitSummaryEvent(me, clientNow) ==
    [id |-> Len(timeline_events) + 1, user_id |-> me.user,
     provenance_id |-> me.provenanceId,
     consent_snapshot_id |-> me.consentSnapshotId,
     event_type |-> "visit_summary",
     event_time |-> clientNow,
     title |-> S(Title(me.input.title)),
     summary |-> me.input.summary,
     details |-> [referenced_event_ids |-> [arr |-> me.input.eventIds],
                  label |-> OrNull(me.input.label)],
     created_at |-> now]

\* the rows a handler may be about to insert, one per reading of the client
\* clock; none when building the row throws (unparsable date)
EventsToInsert(me) ==
    CASE me.op = "journal" ->
            IF me.input.eventDateTime = 0 THEN {} ELSE {JournalEvent(me)}
      [] me.op = "upload" ->
            IF me.input.documentDate = 0 THEN {} ELSE {DocumentEvent(me)}
      [] me.op = "amend_journal" ->
            {JournalAmendmentEvent(me, timeline_events[me.target], t) : t \in Times}
      [] me.op = "amend_document" ->
            {DocumentAmendmentEvent(me, timeline_events[me.target], t) : t \in Times}
      [] me.op = "visit_summary" ->
            {VisitSummaryEvent(me, t) : t \in Times}

\* an amendment written over the event it amends
timeline_events_overwrite(row) ==
    IF IsString(getAmendsEventId(row.details))
    THEN [timeline_events EXCEPT ![getAmendsEventId(row.details).s] = row]
    ELSE Append(timeline_events, row)
\* .from("timeline_events").insert(row)
timeline_events_insert(row) == Append(timeline_events, row)

insertTimelineEvent(p) ==
    /\ proc[p].pc = "event_insert"
    /\ LET me == proc[p]
           rows == {r \in EventsToInsert(me) :
                       timeline_events_insert_ok(me.user, r)}
       IN \/ \E row \in rows :
                /\ timeline_events' = timeline_events_insert(row)
                /\ now' = now + 1
                /\ proc' = [proc EXCEPT ![p].eventId = row.id,
                                        ![p].pc = "audit_insert"]
                /\ UNCHANGED <<data_sources, consent_agreements,
                               consent_snapshots, provenance,
                               document_artifacts, audit_events, jobs, blobs,
                               budget>>
          \/ Fails(p, rows # {})

(***************************************************************************)
(* Audit rows.  The insert's error is never looked at, so the handler      *)
(* reports success whether or not the row was written.                     *)
(***************************************************************************)
NewAuditEvent(uid, action, entityType, entityId) ==
    [id |-> Len(audit_events) + 1, user_id |-> uid, action |-> action,
     entity_type |-> entityType, entity_id |-> entityId, created_at |-> now]

AuditRow(me) ==
    CASE me.op = "journal" ->
            NewAuditEvent(me.user, "journal_created", "timeline_event", me.eventId)
      [] me.op \in {"amend_journal", "amend_document"} ->
            NewAuditEvent(me.user, "event_amended", "timeline_event", me.eventId)
      [] me.op = "visit_summary" ->
            NewAuditEvent(me.user, "visit_summary_created", "timeline_event", me.eventId)
      [] me.op = "upload" ->
            NewAuditEvent(me.user, "document_uploaded", "document_artifact", me.artifactId)
      [] me.op = "add_source" ->
            NewAuditEvent(me.user, "source_added", "data_source", me.dataSourceId)
      [] me.op = "sync_request" ->
            NewAuditEvent(me.user, "source_sync_requested", "data_source", me.target)
      [] me.op = "demo_sync" ->
            NewAuditEvent(me.user, "external_events_imported", "data_source", me.target)

\* an audit insert whose failure is thrown to the handler's catch block
insertAuditEvent_escalates(p) ==
    /\ proc[p].pc = "audit_insert"
    /\ LET me == proc[p]
           row == AuditRow(me)
       IN \/ /\ audit_events_insert_ok(me.user, row)
             /\ audit_events' = Append(audit_events, row)
             /\ now' = now + 1
             /\ UNCHANGED budget
             /\ proc' = [proc EXCEPT ![p].pc = "done", ![p].outcome = "ok"]
          \/ /\ budget.failures > 0
             /\ budget' = [budget EXCEPT !.failures = @ - 1]
             /\ UNCHANGED <<audit_events, now>>
             /\ proc' = Thrown(p)
    /\ UNCHANGED <<data_sources, consent_agreements, consent_snapshots,
                   provenance, timeline_events, document_artifacts, jobs,
                   blobs>>

insertAuditEvent(p) ==
    /\ proc[p].pc = "audit_insert"
    /\ LET me == proc[p]
           row == AuditRow(me)
       IN \/ /\ audit_events_insert_ok(me.user, row)
             /\ audit_events' = Append(audit_events, row)
             /\ now' = now + 1
             /\ UNCHANGED budget
          \/ /\ budget.failures > 0
             /\ budget' = [budget EXCEPT !.failures = @ - 1]
             /\ UNCHANGED <<audit_events, now>>
    /\ proc' = [proc EXCEPT ![p].pc = "done", ![p].outcome = "ok"]
    /\ UNCHANGED <<data_sources, consent_agreements, consent_snapshots,
                   provenance, timeline_events, document_artifacts, jobs,
                   blobs>>

\* the handler has returned; the request slot is free again
Return(p) ==
    /\ proc[p].pc = "done"
    /\ proc' = [proc EXCEPT ![p] = Idle]
    /\ UNCHANGED <<tables, blobs, now, budget>>

(***************************************************************************)
(* Sources page: adding an external source.                                *)
(***************************************************************************)
SourceCatalogue ==
    { [kind |-> "add_source", type |-> "external_api",
       name |-> "Patient-Authorized External Records (Demo)",
       provider |-> "fasten"],
      [kind |-> "add_source", type |-> "portal", name |-> "Patient Portal",
       provider |-> "Epic/MyChart"],
      [kind |-> "add_source", type |-> "device", name |-> "Apple Health",
       provider |-> "Apple Health"] }

AddSource(p) ==
    /\ CanStart(p)
    /\ \E uid \in Callers(p), data \in SourceCatalogue :
          Begin(p, "add_source", uid, data, 0, "src_insert")

addSourceMutation_insert(p) ==
    /\ proc[p].pc = "src_insert"
    /\ LET me == proc[p]
           row == NewDataSource(me.user, me.input.type, me.input.name,
                                me.input.provider, "pending")
           accepted == data_sources_insert_ok(me.user, row)
       IN \/ /\ accepted
             /\ data_sources' = Append(data_sources, row)
             /\ now' = now + 1
             /\ proc' = [proc EXCEPT ![p].dataSourceId = row.id,
                                     ![p].pc = "audit_insert"]
             /\ UNCHANGED <<consent_agreements, consent_snapshots, provenance,
                            timeline_events, document_artifacts, audit_events,
                            jobs, blobs, budget>>
          \/ Fails(p, accepted)

(***************************************************************************)
(* SourceDetails page: connect / sync / retry of a source that is not a    *)
(* Fasten source.  The action is chosen from the row the page has loaded.  *)
(***************************************************************************)
ActionFor(connection_state) ==
    CASE connection_state = "disconnected" -> "connect"
      [] connection_state = "connected" -> "sync"
      [] connection_state = "error" -> "retry"

SyncRequest(p) ==
    /\ CanStart(p)
    /\ \E uid \in Callers(p) :
         \E source \in VisibleDataSources(uid) :
            /\ source.provider # "fasten"
            /\ Begin(p, "sync_request", uid,
                     [kind |-> "sync_request",
                      action |-> ActionFor(source.connection_state)],
                     source.id, "job_insert")

\* UPDATE policy of data_sources: only the caller's own rows are touched
data_sources_update(uid, id, values) ==
    [i \in DOMAIN data_sources |->
        IF data_sources[i].id = id /\ data_sources[i].user_id = uid
        THEN [column \in DOMAIN data_sources[i] |->
                 IF column \in DOMAIN values THEN values[column]
                 ELSE data_sources[i][column]]
        ELSE data_sources[i]]

syncMutation_jobInsert(p) ==
    /\ proc[p].pc = "job_insert"
    /\ LET me == proc[p]
       IN \/ \E clientNow \in Times :
               LET row == [id |-> Len(jobs) + 1, user_id |-> me.user,
                           job_type |-> "source_sync_requested",
                           status |-> "pending",
                           idempotency_key |->
                               <<me.target, me.input.action, clientNow>>,
                           created_at |-> now]
               IN /\ jobs_insert_ok(me.user, row)
                  /\ jobs' = Append(jobs, row)
                  /\ now' = now + 1
                  /\ proc' = [proc EXCEPT ![p].pc =
                                IF me.input.action = "connect"
                                THEN "src_update" ELSE "audit_insert"]
                  /\ UNCHANGED <<data_sources, consent_agreements,
                                 consent_snapshots, provenance,
                                 timeline_events, document_artifacts,
                                 audit_events, blobs, budget>>
          \/ Fails(p, TRUE)

\* a connect that also records a completed sync
Connected_synced == [connection_state |-> "connected", last_sync_status |-> "ok"]
\* a connect that records an error state
Connected_error == [connection_state |-> "error"]
Connected == [connection_state |-> "connected"]

syncMutation_connect(p) ==
    /\ proc[p].pc = "src_update"
    /\ LET me == proc[p]
       IN \/ /\ data_sources' =
                    data_sources_update(me.user, me.target, Connected)
             /\ proc' = [proc EXCEPT ![p].pc = "audit_insert"]
             /\ UNCHANGED <<consent_agreements, consent_snapshots, provenance,
                            timeline_events, document_artifacts, audit_events,
                            jobs, blobs, now, budget>>
          \/ Fails(p, TRUE)

(***************************************************************************)
(* fasten-demo-sync edge function, and the page's request to it.           *)
(***************************************************************************)
DEMO_EVENTS ==
    << [category |-> "encounter", title |-> "Annual Physical Examination",
        providerName |-> "City Medical Center", occurredAt |-> -30],
       [category |-> "lab_results", title |-> "Complete Blood Count (CBC)",
        providerName |-> "LabCorp", occurredAt |-> -28],
       [category |-> "lab_results", title |-> "Lipid Panel",
        providerName |-> "LabCorp", occurredAt |-> -28],
       [category |-> "medication",
        title |-> "Medication Prescription - Lisinopril",
        providerName |-> "City Medical Center", occurredAt |-> -25],
       [category |-> "encounter", title |-> "Follow-up Visit",
        providerName |-> "City Medical Center", occurredAt |-> -14],
       [category |-> "document_reference",
        title |-> "Imaging Report - Chest X-Ray",
        providerName |-> "City Medical Imaging", occurredAt |-> -7] >>

\* the page shows the sync button for a loaded Fasten source and writes an
\* audit row before calling the function; any other source id can only be
\* sent to the function directly
DemoSync(p) ==
    /\ CanStart(p)
    /\ \E uid \in Callers(p), source_id \in 1..(Len(data_sources) + 1) :
          IF \E r \in VisibleDataSources(uid) :
                r.id = source_id /\ r.provider = "fasten"
          THEN Begin(p, "demo_sync", uid, [kind |-> "demo_sync"], source_id,
                     "sync_request_audit")
          ELSE Begin(p, "demo_sync", uid, [kind |-> "demo_sync"], source_id,
                     "sync_source")

\* audit-helpers.ts createAuditEvent: never throws
fastenSyncMutation_audit(p) ==
    /\ proc[p].pc = "sync_request_audit"
    /\ LET me == proc[p]
           row == NewAuditEvent(me.user, "external_sync_requested",
                                "data_source", me.target)
       IN \/ /\ audit_events_insert_ok(me.user, row)
             /\ audit_events' = Append(audit_events, row)
             /\ now' = now + 1
             /\ UNCHANGED budget
          \/ /\ budget.failures > 0
             /\ budget' = [budget EXCEPT !.failures = @ - 1]
             /\ UNCHANGED <<audit_events, now>>
    /\ proc' = [proc EXCEPT ![p].pc = "sync_source"]
    /\ UNCHANGED <<data_sources, consent_agreements, consent_snapshots,
                   provenance, timeline_events, document_artifacts, jobs,
                   blobs>>

\* a source check by id alone, made with a key that no policy filters
demoSync_verifySource_anyOwner(p) ==
    /\ proc[p].pc = "sync_source"
    /\ LET me == proc[p]
           source == single({r \in Range(data_sources) : r.id = me.target})
       IN IF source.error
          THEN proc' = [proc EXCEPT ![p].pc = "done",
                                    ![p].outcome = "not_found"]
          ELSE proc' = [proc EXCEPT ![p].pc = "sync_ca_select"]
    /\ UNCHANGED <<tables, blobs, now, budget>>

demoSync_verifySource(p) ==
    /\ proc[p].pc = "sync_source"
    /\ LET me == proc[p]
           source == single({r \in VisibleDataSources(me.user) :
                               r.id = me.target /\ r.user_id = me.user})
       IN IF source.error
          THEN proc' = [proc EXCEPT ![p].pc = "done",
                                    ![p].outcome = "not_found"]
          ELSE proc' = [proc EXCEPT ![p].pc = "sync_ca_select"]
    /\ UNCHANGED <<tables, blobs, now, budget>>

SyncScope == "health_data"
SyncPermissions == "external_import,source=fasten"

demoSync_agreementSelect(p) ==
    /\ proc[p].pc = "sync_ca_select"
    /\ LET me == proc[p]
           consentAgreement == maybeSingle(
               {r \in VisibleConsentAgreements(me.user) :
                   r.user_id = me.user /\ r.scope = SyncScope})
       IN IF consentAgreement = NoRow
          THEN proc' = [proc EXCEPT ![p].pc = "sync_ca_insert"]
          ELSE proc' = [proc EXCEPT ![p].agreementId = consentAgreement.id,
                                    ![p].pc = "sync_cs_insert"]
    /\ UNCHANGED <<tables, blobs, now, budget>>

demoSync_agreementInsert(p) ==
    /\ proc[p].pc = "sync_ca_insert"
    /\ LET me == proc[p]
           row == [id |-> Len(consent_agreements) + 1, user_id |-> me.user,
                   scope |-> SyncScope]
           accepted == consent_agreements_insert_ok(me.user, row)
       IN \/ /\ accepted
             /\ consent_agreements' = Append(consent_agreements, row)
             /\ now' = now + 1
             /\ proc' = [proc EXCEPT ![p].agreementId = row.id,
                                     ![p].pc = "sync_cs_insert"]
             /\ UNCHANGED <<data_sources, consent_snapshots, provenance,
                            timeline_events, document_artifacts, audit_events,
                            jobs, blobs, budget>>
          \/ Fails(p, accepted)

demoSync_snapshotInsert(p) ==
    /\ proc[p].pc = "sync_cs_insert"
    /\ LET me == proc[p]
           row == [id |-> Len(consent_snapshots) + 1,
                   consent_agreement_id |-> me.agreementId,
                   permissions |-> SyncPermissions, created_at |-> now]
           accepted == consent_snapshots_insert_ok(me.user, row)
       IN \/ /\ accepted
             /\ consent_snapshots' = Append(consent_snapshots, row)
             /\ now' = now + 1
             /\ proc' = [proc EXCEPT ![p].consentSnapshotId = row.id,
                                     ![p].pc = "sync_prov"]
             /\ UNCHANGED <<data_sources, consent_agreements, provenance,
                            timeline_events, document_artifacts, audit_events,
                            jobs, blobs, budget>>
          \/ Fails(p, accepted)

demoSync_provenanceInsert(p) ==
    /\ proc[p].pc = "sync_prov"
    /\ LET me == proc[p]
           row == [id |-> Len(provenance) + 1, data_source_id |-> me.target,
                   method |-> "portal_import", captured_at |-> now]
           accepted == provenance_insert_ok(me.user, row)
       IN \/ /\ accepted
             /\ provenance' = Append(provenance, row)
             /\ now' = now + 1
             /\ proc' = [proc EXCEPT ![p].provenanceId = row.id,
                                     ![p].pc = "sync_events"]
             /\ UNCHANGED <<data_sources, consent_agreements,
                            consent_snapshots, timeline_events,
                            document_artifacts, audit_events, jobs, blobs,
                            budget>>
          \/ Fails(p, accepted)

ExternalEvent(me, k) ==
    [id |-> Len(timeline_events) + k, user_id |-> me.user,
     provenance_id |-> me.provenanceId,
     consent_snapshot_id |-> me.consentSnapshotId,
     event_type |-> "external_event",
     event_time |-> DEMO_EVENTS[k].occurredAt,
     title |-> S(Title(DEMO_EVENTS[k].title)),
     summary |-> DEMO_EVENTS[k].title,
     details |-> [source |-> S("fasten"),
                  resource_category |-> S(DEMO_EVENTS[k].category),
                  provider_name |-> S(DEMO_EVENTS[k].providerName),
                  is_demo |-> [b |-> TRUE]],
     created_at |-> now]

\* the batch written row by row, so that a failure leaves its first row
demoSync_eventsInsert_rowByRow(p) ==
    /\ proc[p].pc = "sync_events"
    /\ LET me == proc[p]
           timelineEvents == [k \in 1..Len(DEMO_EVENTS) |-> ExternalEvent(me, k)]
           accepted == \A k \in 1..Len(DEMO_EVENTS) :
                          timeline_events_insert_ok(me.user, timelineEvents[k])
       IN \/ /\ accepted
             /\ timeline_events' = timeline_events \o timelineEvents
             /\ now' = now + 1
             /\ proc' = [proc EXCEPT ![p].pc = "sync_update"]
             /\ UNCHANGED <<data_sources, consent_agreements,
                            consent_snapshots, provenance,
                            document_artifacts, audit_events, jobs, blobs,
                            budget>>
          \/ /\ accepted
             /\ budget.failures > 0
             /\ timeline_events' = Append(timeline_events, timelineEvents[1])
             /\ now' = now + 1
             /\ budget' = [budget EXCEPT !.failures = @ - 1]
             /\ proc' = Thrown(p)
             /\ UNCHANGED <<data_sources, consent_agreements,
                            consent_snapshots, provenance,
                            document_artifacts, audit_events, jobs, blobs>>

demoSync_eventsInsert(p) ==
    /\ proc[p].pc = "sync_events"
    /\ LET me == proc[p]
           timelineEvents == [k \in 1..Len(DEMO_EVENTS) |-> ExternalEvent(me, k)]
           accepted == \A k \in 1..Len(DEMO_EVENTS) :
                          timeline_events_insert_ok(me.user, timelineEvents[k])
       IN \/ /\ accepted
             /\ timeline_events' = timeline_events \o timelineEvents
             /\ now' = now + 1
             /\ proc' = [proc EXCEPT ![p].pc = "sync_update"]
             /\ UNCHANGED <<data_sources, consent_agreements,
                            consent_snapshots, provenance,
                            document_artifacts, audit_events, jobs, blobs,
                            budget>>
          \/ Fails(p, accepted)

Synced ==
    [connection_state |-> "connected", last_sync_at |-> now,
     last_sync_status |-> "ok", last_error_code |-> "NULL",
     last_error_at |-> 0]

\* a failed status update is only logged
demoSync_updateSource(p) ==
    /\ proc[p].pc = "sync_update"
    /\ LET me == proc[p]
       IN \/ /\ data_sources' =
                    data_sources_update(me.user, me.target, Synced)
             /\ UNCHANGED budget
          \/ /\ budget.failures > 0
             /\ budget' = [budget EXCEPT !.failures = @ - 1]
             /\ UNCHANGED data_sources
    /\ proc' = [proc EXCEPT ![p].pc = "audit_insert"]
    /\ UNCHANGED <<consent_agreements, consent_snapshots, provenance,
                   timeline_events, document_artifacts, audit_events, jobs,
                   blobs, now>>

(***************************************************************************)
(* documents-download: the download proxy.  "none" is a request whose       *)
(* Authorization header is missing or whose token getClaims rejects.        *)
(***************************************************************************)
Credentials == Users \cup {"none"}

Download(p) ==
    /\ CanStart(p)
    /\ \E credential \in IF p = 1 /\ budget.overlap THEN {"A", "none"}
                         ELSE Credentials,
          artifact_id \in 1..(Len(document_artifacts) + 1) :
          Begin(p, "download", credential, [kind |-> "download"], artifact_id,
                "dl_auth")

documentsDownload_auth(p) ==
    /\ proc[p].pc = "dl_auth"
    /\ proc' = IF proc[p].user \in Users
               THEN [proc EXCEPT ![p].pc = "dl_artifact"]
               ELSE [proc EXCEPT ![p].pc = "done",
                                 ![p].outcome = "unauthorized"]
    /\ UNCHANGED <<tables, blobs, now, budget>>

\* a lookup made with the service role, which no policy filters
documentsDownload_artifact_anyOwner(uid, id) ==
    maybeSingle({r \in Range(document_artifacts) : r.id = id})

\* documents-download: the artifact query
documentsDownload_artifact(uid, id) ==
    maybeSingle({r \in VisibleDocumentArtifacts(uid) :
                    r.id = id /\ r.user_id = uid})

documentsDownload_lookup(p) ==
    /\ proc[p].pc = "dl_artifact"
    /\ LET artifact == documentsDownload_artifact(proc[p].user, proc[p].target)
       IN proc' = IF artifact = NoRow
                  THEN [proc EXCEPT ![p].pc = "done",
                                    ![p].outcome = "not_found"]
                  ELSE [proc EXCEPT ![p].pc = "dl_storage",
                                    ![p].artifactId = artifact.id,
                                    ![p].storagePath = artifact.storage_path]
    /\ UNCHANGED <<tables, blobs, now, budget>>

\* adminClient.storage.download(artifact.storage_path)
documentsDownload_storage(p) ==
    /\ proc[p].pc = "dl_storage"
    /\ proc' = [proc EXCEPT ![p].pc = "done",
                            ![p].outcome =
                                IF proc[p].storagePath \in blobs THEN "ok"
                                ELSE "error"]
    /\ UNCHANGED <<tables, blobs, now, budget>>

(***************************************************************************)
(* The tables are reachable through the REST endpoint as well: a signed-in *)
(* client can post a timeline_events row of its own making, which the      *)
(* INSERT policy and the foreign keys then accept or reject.               *)
(***************************************************************************)
PostedEvent(uid, provenance_id, consent_snapshot_id) ==
    [id |-> Len(timeline_events) + 1, user_id |-> uid,
     provenance_id |-> provenance_id,
     consent_snapshot_id |-> consent_snapshot_id,
     event_type |-> "journal_entry", event_time |-> 1, title |-> JNull,
     summary |-> "x", details |-> [text |-> S("x")], created_at |-> now]

timeline_events_post ==
    /\ budget.ops > 0
    /\ \A p \in Procs : proc[p].pc = "idle"
    /\ \E uid \in Users,
          provenance_id \in 1..(Len(provenance) + 1),
          consent_snapshot_id \in 1..(Len(consent_snapshots) + 1) :
          LET row == PostedEvent(uid, provenance_id, consent_snapshot_id)
          IN /\ timeline_events_insert_ok(uid, row)
             /\ timeline_events' = timeline_events_insert(row)
    /\ now' = now + 1
    /\ budget' = [budget EXCEPT !.ops = @ - 1]
    /\ UNCHANGED <<data_sources, consent_agreements, consent_snapshots,
                   provenance, document_artifacts, audit_events, jobs, blobs,
                   proc>>

Next ==
    \/ timeline_events_post
    \/ \E p \in Procs : JournalSubmit(p)
    \/ \E p \in Procs : OpenAmendModal(p)
    \/ \E p \in Procs : NavigateEvent(p)
    \/ \E p \in Procs : AmendSubmit(p)
    \/ \E p \in Procs : CreateSummary(p)
    \/ \E p \in Procs : UploadSubmit(p)
    \/ \E p \in Procs : AddSource(p)
    \/ \E p \in Procs : SyncRequest(p)
    \/ \E p \in Procs : DemoSync(p)
    \/ \E p \in Procs : Download(p)
    \/ \E p \in Procs : getOrCreateDataSource_select(p)
    \/ \E p \in Procs : getOrCreateDataSource_insert(p)
    \/ \E p \in Procs : getOrCreateDefaultConsentSnapshot_agreementSelect(p)
    \/ \E p \in Procs : getOrCreateDefaultConsentSnapshot_agreementInsert(p)
    \/ \E p \in Procs : getOrCreateDefaultConsentSnapshot_snapshotSelect(p)
    \/ \E p \in Procs : getOrCreateDefaultConsentSnapshot_snapshotInsert(p)
    \/ \E p \in Procs : createProvenance(p)
    \/ \E p \in Procs : uploadBlob(p)
    \/ \E p \in Procs : insertDocumentArtifact(p)
    \/ \E p \in Procs : cleanupBlob(p)
    \/ \E p \in Procs : insertTimelineEvent(p)
    \/ \E p \in Procs : insertAuditEvent(p)
    \/ \E p \in Procs : documentsDownload_auth(p)
    \/ \E p \in Procs : documentsDownload_lookup(p)
    \/ \E p \in Procs : documentsDownload_storage(p)
    \/ \E p \in Procs : addSourceMutation_insert(p)
    \/ \E p \in Procs : syncMutation_jobInsert(p)
    \/ \E p \in Procs : syncMutation_connect(p)
    \/ \E p \in Procs : fastenSyncMutation_audit(p)
    \/ \E p \in Procs : demoSync_verifySource(p)
    \/ \E p \in Procs : demoSync_agreementSelect(p)
    \/ \E p \in Procs : demoSync_agreementInsert(p)
    \/ \E p \in Procs : demoSync_snapshotInsert(p)
    \/ \E p \in Procs : demoSync_provenanceInsert(p)
    \/ \E p \in Procs : demoSync_eventsInsert(p)
    \/ \E p \in Procs : demoSync_updateSource(p)
    \/ \E p \in Procs : Return(p)

\* overlapping requests of two users
Spec == Init /\ [][Next]_vars

\* one request at a time
InitSeq ==
    /\ data_sources = <<>>
    /\ consent_agreements = <<>>
    /\ consent_snapshots = <<>>
    /\ provenance = <<>>
    /\ timeline_events = <<>>
    /\ document_artifacts = <<>>
    /\ audit_events = <<>>
    /\ jobs = <<>>
    /\ blobs = {}
    /\ now = 1
    /\ proc = [p \in Procs |-> Idle]
    /\ budget = [ops |-> MaxSeqOps, overlap |-> FALSE, failures |-> MaxFailures]

SpecSeq == InitSeq /\ [][Next]_vars

(***************************************************************************)
(* Overlapping requests of a user who has already saved one journal entry: *)
(* the tables are as the first submission {title "A", text "x"} of user A  *)
(* leaves them.                                                            *)
(***************************************************************************)
InitPair ==
    /\ data_sources =
          <<[id |-> 1, user_id |-> "A", type |-> "manual",
             name |-> "User Journal", provider |-> "NULL",
             status |-> "active", connection_state |-> "disconnected",
             last_sync_at |-> 0, last_sync_status |-> "NULL",
             last_error_code |-> "NULL", last_error_at |-> 0]>>
    /\ consent_agreements =
          <<[id |-> 1, user_id |-> "A", scope |-> DefaultScope]>>
    /\ consent_snapshots =
          <<[id |-> 1, consent_agreement_id |-> 1,
             permissions |-> DefaultPermissions, created_at |-> 3]>>
    /\ provenance =
          <<[id |-> 1, data_source_id |-> 1, method |-> "manual_entry",
             captured_at |-> 4]>>
    /\ timeline_events =
          <<[id |-> 1, user_id |-> "A", provenance_id |-> 1,
             consent_snapshot_id |-> 1, event_type |-> "journal_entry",
             event_time |-> 2, title |-> S(Title("A")), summary |-> "x",
             details |-> [text |-> S("x"), category |-> S("other")],
             created_at |-> 5]>>
    /\ document_artifacts = <<>>
    /\ audit_events =
          <<[id |-> 1, user_id |-> "A", action |-> "journal_created",
             entity_type |-> "timeline_event", entity_id |-> 1,
             created_at |-> 6]>>
    /\ jobs = <<>>
    /\ blobs = {}
    /\ now = 7
    /\ proc = [p \in Procs |-> Idle]
    /\ budget = [ops |-> MaxOps, overlap |-> TRUE, failures |-> MaxFailures]

SpecPair == InitPair /\ [][Next]_vars

(***************************************************************************)
(* Requests one at a time, where a handler that has started keeps running: *)
(* every await of a running handler resolves, so its next step is taken.   *)
(* Nothing obliges a user to start a request.                              *)
(***************************************************************************)
InitLive ==
    /\ data_sources = <<>>
    /\ consent_agreements = <<>>
    /\ consent_snapshots = <<>>
    /\ provenance = <<>>
    /\ timeline_events = <<>>
    /\ document_artifacts = <<>>
    /\ audit_events = <<>>
    /\ jobs = <<>>
    /\ blobs = {}
    /\ now = 1
    /\ proc = [p \in Procs |-> Idle]
    /\ budget = [ops |-> MaxSeqOps, overlap |-> FALSE,
                 failures |-> MaxFailures]

Running == \E p \in Procs : proc[p].pc \notin {"idle", "modal_open"}

SpecLive == InitLive /\ [][Next]_vars /\ WF_vars(Running /\ Next)

(***************************************************************************)
(* Requests one at a time of a user whose first two journal submissions    *)
(* {title "A", text "x"} overlapped: each call of getOrCreateDataSource    *)
(* ran its select before the other's insert, so there are two              *)
(* "User Journal" rows.                                                    *)
(***************************************************************************)
InitDup ==
    /\ data_sources =
          [i \in 1..2 |->
              [id |-> i, user_id |-> "A", type |-> "manual",
               name |-> "User Journal", provider |-> "NULL",
               status |-> "active", connection_state |-> "disconnected",
               last_sync_at |-> 0, last_sync_status |-> "NULL",
               last_error_code |-> "NULL", last_error_at |-> 0]]
    /\ consent_agreements =
          <<[id |-> 1, user_id |-> "A", scope |-> DefaultScope]>>
    /\ consent_snapshots =
          <<[id |-> 1, consent_agreement_id |-> 1,
             permissions |-> DefaultPermissions, created_at |-> 4]>>
    /\ provenance =
          [i \in 1..2 |->
              [id |-> i, data_source_id |-> i, method |-> "manual_entry",
               captured_at |-> 4 + i]]
    /\ timeline_events =
          [i \in 1..2 |->
              [id |-> i, user_id |-> "A", provenance_id |-> i,
               consent_snapshot_id |-> 1, event_type |-> "journal_entry",
               event_time |-> 2, title |-> S(Title("A")), summary |-> "x",
               details |-> [text |-> S("x"), category |-> S("other")],
               created_at |-> 6 + i]]
    /\ document_artifacts = <<>>
    /\ audit_events =
          [i \in 1..2 |->
              [id |-> i, user_id |-> "A", action |-> "journal_created",
               entity_type |-> "timeline_event", entity_id |-> i,
               created_at |-> 8 + i]]
    /\ jobs = <<>>
    /\ blobs = {}
    /\ now = 11
    /\ proc = [p \in Procs |-> Idle]
    /\ budget = [ops |-> MaxOps, overlap |-> FALSE, failures |-> MaxFailures]

SpecDup == InitDup /\ [][Next]_vars

(***************************************************************************)
(* Reads.  Each is a function of the tables and of the caller.             *)
(***************************************************************************)
\* EventDetails: the event query
EventDetails_event(uid, id) ==
    single({r \in VisibleTimelineEvents(uid) : r.id = id})

\* SourceDetails: the source query
SourceDetails_source(uid, id) ==
    maybeSingle({r \in VisibleDataSources(uid) : r.id = id})


\* Timeline: the client-side filter over the fetched events
filteredEvents(events, filter) ==
    CASE filter = "journal" ->
            {e \in events : e.event_type = "journal_entry"}
      [] filter = "documents" ->
            {e \in events : e.event_type = "document_uploaded"}
      [] filter = "external" ->
            {e \in events : e.event_type = "external_event"}
      [] OTHER -> events

(***************************************************************************)
(* C1  Append-only ledger: no step of any operation removes or changes a   *)
(* row of timeline_events, provenance, consent_snapshots or audit_events   *)
(* that existed before the step; creating an amendment of an event leaves  *)
(* the event's row as it was.                                              *)
(***************************************************************************)
AppendOnly(table) ==
    /\ Len(table') >= Len(table)
    /\ \A i \in 1..Len(table) : table'[i] = table[i]

C1_AppendOnlyLedger ==
    [][/\ AppendOnly(timeline_events)
       /\ AppendOnly(provenance)
       /\ AppendOnly(consent_snapshots)
       /\ AppendOnly(audit_events)]_vars

\* an amendment of an existing event has been written and audited
C1_AmendmentWritten ==
    \E a \in Range(timeline_events), e \in Range(timeline_events) :
        /\ a.event_type = "event_amended"
        /\ getAmendsEventId(a.details) = S(e.id)
        /\ a.id # e.id
        /\ \E au \in Range(audit_events) :
              au.action = "event_amended" /\ au.entity_id = a.id

(***************************************************************************)
(* C2  In every reachable state, also after a handler failed part-way,     *)
(* every timeline event has a provenance_id and a consent_snapshot_id,     *)
(* and each is the id of an existing row.                                  *)
(***************************************************************************)
C2_ProvenanceAndConsentResolvable ==
    \A e \in Range(timeline_events) :
        /\ e.provenance_id \in Ids(provenance)
        /\ e.consent_snapshot_id \in Ids(consent_snapshots)

\* a handler has failed after it wrote its provenance row, and events exist
C2_FailedAfterProvenance ==
    /\ timeline_events # <<>>
    /\ \E p \in Procs :
          /\ proc[p].outcome = "error"
          /\ proc[p].provenanceId \in Ids(provenance)
          /\ proc[p].eventId = 0

(***************************************************************************)
(* C3  Ownership isolation on reads: a lookup by id of another user's      *)
(* timeline event, data source or document artifact gives the result that  *)
(* the lookup of an id that does not exist gives, and not the row.         *)
(***************************************************************************)
C3_ForeignLookupIsNotFound ==
    \A uid \in Users :
        /\ \A e \in Range(timeline_events) :
              e.user_id # uid =>
                 /\ EventDetails_event(uid, e.id) =
                       EventDetails_event(uid, Len(timeline_events) + 1)
                 /\ EventDetails_event(uid, e.id).data # e
        /\ \A ds \in Range(data_sources) :
              ds.user_id # uid =>
                 /\ SourceDetails_source(uid, ds.id) =
                       SourceDetails_source(uid, Len(data_sources) + 1)
                 /\ SourceDetails_source(uid, ds.id) # ds
        /\ \A da \in Range(document_artifacts) :
              da.user_id # uid =>
                 /\ documentsDownload_artifact(uid, da.id) =
                       documentsDownload_artifact(uid, Len(document_artifacts) + 1)
                 /\ documentsDownload_artifact(uid, da.id) # da

\* one user owns an event, a source and an artifact; the other user, who
\* looks them up, has an event of their own and finds that one
C3_BothUsersOwnRows ==
    \E a \in Users, b \in Users :
        /\ a # b
        /\ \E e \in Range(timeline_events) : e.user_id = a
        /\ \E ds \in Range(data_sources) : ds.user_id = a
        /\ \E da \in Range(document_artifacts) : da.user_id = a
        /\ \E e \in Range(timeline_events) :
              e.user_id = b /\ EventDetails_event(b, e.id).data = e

(***************************************************************************)
(* C4  An insert of a timeline event is accepted only if the data source   *)
(* of its provenance and the agreement of its consent snapshot belong to   *)
(* the event's user, so every event's provenance and consent snapshot are  *)
(* owned by the event's user.                                              *)
(***************************************************************************)
C4_ReferencesOwnedByEventUser ==
    \A e \in Range(timeline_events) :
        /\ \E pr \in Range(provenance), ds \in Range(data_sources) :
              /\ pr.id = e.provenance_id
              /\ ds.id = pr.data_source_id
              /\ ds.user_id = e.user_id
        /\ \E cs \in Range(consent_snapshots), ca \in Range(consent_agreements) :
              /\ cs.id = e.consent_snapshot_id
              /\ ca.id = cs.consent_agreement_id
              /\ ca.user_id = e.user_id

(***************************************************************************)
(* C5  Two overlapping calls getOrCreateDataSource(u, "manual",            *)
(* "User Journal") that start with no such source leave exactly one such   *)
(* row, and both return its id.                                            *)
(***************************************************************************)
JournalSources(uid) ==
    {r \in Range(data_sources) :
        r.user_id = uid /\ r.type = "manual" /\ r.name = "User Journal"}

C5_OneSourceSameId ==
    \A p \in Procs, q \in Procs :
        /\ p # q
        /\ proc[p].op = "journal" /\ proc[q].op = "journal"
        /\ proc[p].user = proc[q].user
        /\ proc[p].dataSourceId # 0 /\ proc[q].dataSourceId # 0
        => /\ proc[p].dataSourceId = proc[q].dataSourceId
           /\ Cardinality(JournalSources(proc[p].user)) = 1

(***************************************************************************)
(* C6  getOrCreateDefaultConsentSnapshot is idempotent when requests do    *)
(* not overlap: once a call has returned a snapshot id, the next call by   *)
(* the same user finds that snapshot and inserts nothing.                  *)
(***************************************************************************)
\* write-helpers.ts getOrCreateDefaultConsentSnapshot, its two selects: the
\* ids a call can return without inserting; none when it would insert
getOrCreateDefaultConsentSnapshot_existing(uid) ==
    LET existingAgreement == maybeSingle(
            {r \in VisibleConsentAgreements(uid) : r.user_id = uid})
        matching == {r \in VisibleConsentSnapshots(uid) :
                        r.consent_agreement_id = existingAgreement.id}
    IN IF existingAgreement = NoRow THEN {}
       ELSE {r.id : r \in LatestSnapshots(matching)}

UsesDefaultConsentSnapshot(op) ==
    op \in {"journal", "amend_journal", "amend_document", "visit_summary"}

C6_SecondCallFindsSnapshot ==
    \A p \in Procs :
        /\ budget.failures = MaxFailures      \* every earlier request completed
        /\ UsesDefaultConsentSnapshot(proc[p].op)
        /\ proc[p].consentSnapshotId # 0
        => getOrCreateDefaultConsentSnapshot_existing(proc[p].user) =
              {proc[p].consentSnapshotId}

(***************************************************************************)
(* C7  At most one consent agreement exists per (user_id, scope), however  *)
(* the requests of a user interleave.                                      *)
(***************************************************************************)
C7_OneAgreementPerUserAndScope ==
    \A a \in Range(consent_agreements), b \in Range(consent_agreements) :
        a.user_id = b.user_id /\ a.scope = b.scope => a.id = b.id

(***************************************************************************)
(* The amendment resolver of the event details page.                       *)
(***************************************************************************)
\* the amendments query without its filter
AmendmentsOfAnyEvent(uid, id) ==
    {e \in VisibleTimelineEvents(uid) : e.event_type = "event_amended"}
\* the amendments query and its filter
Amendments(uid, id) ==
    {e \in VisibleTimelineEvents(uid) :
        e.event_type = "event_amended" /\ getAmendsEventId(e.details) = S(id)}

\* .order("event_time", {ascending: false}) then amendments[0]: a row with
\* the greatest event_time (which one of several equal rows is first is not
\* determined); NoRow stands for null
latestAmendment(uid, id) ==
    IF Amendments(uid, id) = {} THEN {NoRow}
    ELSE {a \in Amendments(uid, id) :
             \A o \in Amendments(uid, id) : o.event_time <= a.event_time}

\* String.prototype.replace(pattern, ""): the first occurrence is removed
RECURSIVE replace(_, _)
replace(str, pattern) ==
    IF str = <<>> THEN <<>>
    ELSE IF Head(str) = pattern THEN Tail(str)
    ELSE <<Head(str)>> \o replace(Tail(str), pattern)

\* `a || b` on JSON values
JsOr(a, b) == IF IsString(a) /\ Truthy(a.s) THEN a ELSE b

\* currentViewText .. currentViewNotes, notes as rendered
currentView(event, latest) ==
    IF latest # NoRow
    THEN [text |-> getText(latest.details),
          category |-> getOptionalCategory(latest.details),
          title |-> IF latest.title = JNull THEN JNull
                    ELSE S(replace(latest.title.s, AmendedPrefix)),
          doc_type |-> getDocType(latest.details),
          notes |-> JsOr(getNotes(latest.details), getNotes(event.details))]
    ELSE [text |-> getText(event.details),
          category |-> getOptionalCategory(event.details),
          title |-> event.title,
          doc_type |-> getDocType(event.details),
          notes |-> JsOr(getNotes(event.details), getNotes(event.details))]

\* the views the page can show for an event
currentViews(uid, event) ==
    {currentView(event, latest) : latest \in latestAmendment(uid, event.id)}

(***************************************************************************)
(* C8  The latest amendment of an event is the amendment of it with the    *)
(* greatest created_at, whatever the event_time values are.                *)
(***************************************************************************)
C8_LatestIsGreatestCreatedAt ==
    \A uid \in Users :
        \A e \in VisibleTimelineEvents(uid) :
            \A latest \in latestAmendment(uid, e.id) :
                latest # NoRow =>
                    \A o \in Amendments(uid, e.id) :
                        o.created_at <= latest.created_at

(***************************************************************************)
(* C9  In the current view of an amended event each of text, category,     *)
(* title, doc_type and notes is the latest amendment's value when the      *)
(* amendment carries it, and the original event's value when it does not.  *)
(***************************************************************************)
Carried(value, original) == IF IsString(value) THEN value ELSE original

C9_FieldByFieldFallback ==
    \A uid \in Users :
        \A e \in VisibleTimelineEvents(uid) :
            \A latest \in latestAmendment(uid, e.id) :
                latest # NoRow =>
                    currentView(e, latest) =
                        [text |-> Carried(getText(latest.details),
                                          getText(e.details)),
                         category |-> Carried(getOptionalCategory(latest.details),
                                              getOptionalCategory(e.details)),
                         title |-> IF latest.title = JNull THEN e.title
                                   ELSE S(replace(latest.title.s, AmendedPrefix)),
                         doc_type |-> Carried(getDocType(latest.details),
                                              getDocType(e.details)),
                         notes |-> Carried(getNotes(latest.details),
                                           getNotes(e.details))]

(***************************************************************************)
(* C10  The current view of an event that no amendment targets is the      *)
(* event's own title, text, category, doc_type and notes; and writing an   *)
(* amendment of another event does not change the current view of an       *)
(* event.                                                                  *)
(***************************************************************************)
OwnView(event) ==
    [text |-> getText(event.details),
     category |-> getOptionalCategory(event.details),
     title |-> event.title,
     doc_type |-> getDocType(event.details),
     notes |-> getNotes(event.details)]

\* the rows a step adds to timeline_events
Added(id) == id > Len(timeline_events) /\ id <= Len(timeline_events')

C10_OnlyOwnAmendmentsCount ==
    [][\A uid \in Users :
         /\ \A e \in Range(timeline_events') :
               (e.user_id = uid /\ Amendments(uid, e.id)' = {})
               => currentViews(uid, e)' = {OwnView(e)}
         /\ \A e \in Range(timeline_events) :
               (/\ e.user_id = uid
                /\ \A id \in 1..Len(timeline_events') :
                      Added(id) =>
                         getAmendsEventId(timeline_events'[id].details) # S(e.id))
               => currentViews(uid, e)' = currentViews(uid, e)]_vars

\* an event without amendments next to an amended event of the same user
C10_AmendedNeighbour ==
    \E e \in Range(timeline_events), e2 \in Range(timeline_events) :
        /\ e.id # e2.id
        /\ e.user_id = e2.user_id
        /\ canAmend(e) /\ canAmend(e2)
        /\ Amendments(e.user_id, e.id) = {}
        /\ Amendments(e.user_id, e2.id) # {}

(***************************************************************************)
(* C11  An amendment request whose target is a visit_summary, an           *)
(* event_amended or an external_event is rejected: no amendment handler    *)
(* runs for such a target, and every event_amended row amends a            *)
(* journal_entry or a document_uploaded event.                             *)
(***************************************************************************)
C11_OnlyAmendableTargets ==
    /\ \A p \in Procs :
          proc[p].op \in {"amend_journal", "amend_document"}
          => canAmend(timeline_events[proc[p].target])
    /\ \A a \in Range(timeline_events) :
          a.event_type = "event_amended"
          => \E e \in Range(timeline_events) :
                getAmendsEventId(a.details) = S(e.id) /\ canAmend(e)

SyncAccepted(pc) ==
    pc \in {"sync_ca_select", "sync_ca_insert", "sync_cs_insert", "sync_prov",
            "sync_events", "sync_update"}

C13_SyncWhileDisconnectedRejected ==
    \A p \in Procs :
        proc[p].op = "demo_sync" /\ SyncAccepted(proc[p].pc)
        => data_sources[proc[p].target].connection_state # "disconnected"

(***************************************************************************)
(* C14  When a sync attempt fails, the source ends with connection_state   *)
(* error, last_sync_status error, and last_error_code and last_error_at    *)
(* set.                                                                    *)
(***************************************************************************)
C14_FailedSyncMarksSource ==
    \A p \in Procs :
        /\ proc[p].op = "demo_sync"
        /\ proc[p].pc = "done"
        /\ proc[p].outcome = "error"
        => LET source == data_sources[proc[p].target]
           IN /\ source.connection_state = "error"
              /\ source.last_sync_status = "error"
              /\ source.last_error_code # "NULL"
              /\ source.last_error_at # 0

(***************************************************************************)
(* C15  Whenever a sync reports success, the source has last_sync_status   *)
(* ok, last_sync_at set and last_error_code null.                          *)
(***************************************************************************)
C15_SuccessfulSyncMarksSource ==
    \A p \in Procs :
        /\ proc[p].op = "demo_sync"
        /\ proc[p].pc = "done"
        /\ proc[p].outcome = "ok"
        => LET source == data_sources[proc[p].target]
           IN /\ source.last_sync_status = "ok"
              /\ source.last_sync_at # 0
              /\ source.last_error_code = "NULL"

(***************************************************************************)
(* C16  In every step a source's connection_state stays as it is or moves  *)
(* along disconnected -> connected, connected -> error or                  *)
(* error -> connected.                                                     *)
(***************************************************************************)
ConnectionEdges ==
    {<<"disconnected", "connected">>, <<"connected", "error">>,
     <<"error", "connected">>}

C16_ConnectionStateMachine ==
    [][\A id \in Ids(data_sources) :
          \/ data_sources'[id].connection_state =
                data_sources[id].connection_state
          \/ <<data_sources[id].connection_state,
               data_sources'[id].connection_state>> \in ConnectionEdges]_vars

\* a source has been connected and another is still disconnected
C16_ConnectedAndDisconnected ==
    \E a \in Range(data_sources), b \in Range(data_sources) :
        /\ a.connection_state = "connected"
        /\ b.connection_state = "disconnected"

(***************************************************************************)
(* C17  The connection fields of a source of type manual or upload are     *)
(* never changed: they keep the values the row was created with.           *)
(***************************************************************************)
C17_InternalSourcesUntouched ==
    \A source \in Range(data_sources) :
        source.type \in {"manual", "upload"}
        => /\ source.connection_state = "disconnected"
           /\ source.last_sync_at = 0
           /\ source.last_sync_status = "NULL"
           /\ source.last_error_code = "NULL"
           /\ source.last_error_at = 0

(***************************************************************************)
(* C18  The step that ends a primary write's audit insert, whether the     *)
(* audit row was written or not, reports success, leaves the event log as  *)
(* it is, and the primary event is in the log.                             *)
(***************************************************************************)
PrimaryOps ==
    {"journal", "amend_journal", "amend_document", "visit_summary", "upload",
     "demo_sync"}

PrimaryEventWritten(me, events) ==
    IF me.op = "demo_sync"
    THEN \E e \in Range(events) :
            /\ e.event_type = "external_event"
            /\ e.provenance_id = me.provenanceId
    ELSE /\ me.eventId \in Ids(events)
         /\ events[me.eventId].user_id = me.user

AuditWritten(me) ==
    \E a \in Range(audit_events) :
        /\ a.user_id = me.user
        /\ a.action = AuditRow(me).action
        /\ a.entity_id = AuditRow(me).entity_id

C18_AuditFailureIsHarmless ==
    [][\A p \in Procs :
          /\ proc[p].op \in PrimaryOps
          /\ proc[p].pc = "audit_insert"
          /\ proc'[p] # proc[p]
          => /\ proc'[p].pc = "done"
             /\ proc'[p].outcome = "ok"
             /\ timeline_events' = timeline_events
             /\ PrimaryEventWritten(proc'[p], timeline_events')]_vars

\* a primary write has reported success although its audit row is missing
C18_SuccessWithoutAuditRow ==
    \E p \in Procs :
        /\ proc[p].op \in PrimaryOps
        /\ proc[p].pc = "done"
        /\ proc[p].outcome = "ok"
        /\ ~AuditWritten(proc[p])
        /\ PrimaryEventWritten(proc[p], timeline_events)

(***************************************************************************)
(* C19  A document upload that fails goes to the cleanup step; the cleanup *)
(* removes at most the blob at the upload's own path, keeps the reported   *)
(* outcome a failure whether or not the delete worked, and a failed upload *)
(* has no document_uploaded event.                                         *)
(***************************************************************************)
UploadedEvent(me, events) ==
    \E e \in Range(events) :
        /\ e.event_type = "document_uploaded"
        /\ e.provenance_id = me.provenanceId

C19_FailedUploadCleansUp ==
    [][\A p \in Procs :
          proc[p].op = "upload" /\ proc'[p] # proc[p]
          => /\ proc[p].outcome # "error" /\ proc'[p].outcome = "error"
                => /\ proc'[p].pc = "up_cleanup"
                   /\ blobs' = blobs
             /\ proc[p].pc = "up_cleanup"
                => /\ proc'[p].pc = "done"
                   /\ proc'[p].outcome = "error"
                   /\ blobs' \in {blobs, blobs \ {proc[p].storagePath}}
             /\ proc'[p].outcome = "error"
                => ~UploadedEvent(proc'[p], timeline_events')]_vars

\* an upload failed after its blob was put, and the blob has been removed
C19_BlobRemovedAfterFailure ==
    \E p \in Procs :
        /\ proc[p].op = "upload"
        /\ proc[p].pc = "done"
        /\ proc[p].outcome = "error"
        /\ proc[p].dataSourceId # 0
        /\ proc[p].storagePath \notin blobs

(***************************************************************************)
(* C20  Every document_artifacts row's storage_path names a blob that is   *)
(* in the blob store.                                                      *)
(***************************************************************************)
C20_ArtifactBlobExists ==
    \A da \in Range(document_artifacts) : da.storage_path \in blobs

(***************************************************************************)
(* C21  A journal submission that completes with no failed request on an   *)
(* empty log leaves exactly one event: a journal_entry of the submitting   *)
(* user with details {text, category}, whose provenance has method         *)
(* manual_entry on the user's manual source "User Journal"; the timeline   *)
(* filtered by journal shows exactly that event, and an audit row          *)
(* journal_created names the event's id.                                   *)
(***************************************************************************)
FirstJournalDone(p) ==
    /\ proc[p].op = "journal"
    /\ proc[p].pc = "done"
    /\ proc[p].outcome = "ok"
    /\ budget.ops = MaxSeqOps - 1
    /\ budget.failures = MaxFailures

C21_JournalCreateRoundTrip ==
    \A p \in Procs :
        FirstJournalDone(p)
        => LET me == proc[p]
           IN /\ Len(timeline_events) = 1
              /\ LET e == timeline_events[1]
                     prov == provenance[e.provenance_id]
                     source == data_sources[prov.data_source_id]
                 IN /\ e.id = me.eventId
                    /\ e.user_id = me.user
                    /\ e.event_type = "journal_entry"
                    /\ e.details =
                          [text |-> S(me.input.entryText),
                           category |-> S(OrElse(me.input.category, "other"))]
                    /\ prov.method = "manual_entry"
                    /\ source.user_id = me.user
                    /\ source.type = "manual"
                    /\ source.name = "User Journal"
                    /\ filteredEvents(VisibleTimelineEvents(me.user),
                                      "journal") = {e}
                    /\ \E a \in Range(audit_events) :
                          /\ a.action = "journal_created"
                          /\ a.entity_id = e.id
                          /\ a.user_id = me.user

\* a first journal submission with a chosen category has completed
C21_FirstJournalSaved ==
    \E p \in Procs :
        /\ FirstJournalDone(p)
        /\ proc[p].input.category # ""
        /\ Len(audit_events) = 1

(***************************************************************************)
(* C22  The download proxy reads the blob store, and returns content, only *)
(* for a signed-in caller and an artifact row of that caller with the id   *)
(* asked for, and the path it reads is that row's storage_path.  A request *)
(* without a valid credential, or for an id that is absent or another      *)
(* user's, ends with no storage read and no path.                          *)
(***************************************************************************)
StorageTouched(me) ==
    \/ me.pc = "dl_storage"
    \/ me.storagePath # <<>>
    \/ me.outcome \in {"ok", "error"}

C22_OwnershipBeforeStorage ==
    \A p \in Procs :
        proc[p].op = "download" /\ StorageTouched(proc[p])
        => /\ proc[p].user \in Users
           /\ \E da \in Range(document_artifacts) :
                 /\ da.id = proc[p].target
                 /\ da.user_id = proc[p].user
                 /\ da.storage_path = proc[p].storagePath

\* a signed-in caller has asked for another user's document and was refused
C22_ForeignDocumentRefused ==
    \E p \in Procs :
        /\ proc[p].op = "download"
        /\ proc[p].pc = "done"
        /\ proc[p].outcome = "not_found"
        /\ proc[p].target \in Ids(document_artifacts)
        /\ document_artifacts[proc[p].target].user_id # proc[p].user
        /\ document_artifacts[proc[p].target].storage_path \in blobs

(***************************************************************************)
(* C23  While the first request is a journal submission whose event date   *)
(* is not a valid timestamp, no table has a row: the aborted write has     *)
(* written nothing.                                                        *)
(***************************************************************************)
C23_MalformedInputWritesNothing ==
    \A p \in Procs :
        /\ proc[p].op = "journal"
        /\ proc[p].input.eventDateTime = 0
        /\ budget.ops = MaxSeqOps - 1
        => /\ data_sources = <<>>
           /\ consent_agreements = <<>>
           /\ consent_snapshots = <<>>
           /\ provenance = <<>>
           /\ timeline_events = <<>>
           /\ audit_events = <<>>

(***************************************************************************)
(* C24  No step of a connect request changes timeline_events or            *)
(* provenance, and the only change it makes to data_sources is to set the  *)
(* connection_state of the source it names to connected; last_sync_at,     *)
(* last_sync_status, last_error_code and last_error_at stay as they were.  *)
(***************************************************************************)
C24_ConnectChangesOnlyState ==
    [][\A p \in Procs :
          /\ proc[p].op = "sync_request"
          /\ proc[p].input.action = "connect"
          /\ proc'[p] # proc[p]
          => /\ timeline_events' = timeline_events
             /\ provenance' = provenance
             /\ Len(data_sources') = Len(data_sources)
             /\ \A id \in Ids(data_sources) :
                   \/ data_sources'[id] = data_sources[id]
                   \/ /\ id = proc[p].target
                      /\ data_sources[id].connection_state = "disconnected"
                      /\ data_sources'[id] =
                            [data_sources[id] EXCEPT
                                !.connection_state = "connected"]
             /\ proc[p].pc = "src_update" /\ proc'[p].pc = "audit_insert"
                => data_sources'[proc[p].target].connection_state =
                      "connected"]_vars

\* a connect request has completed and its source is connected, never synced
C24_ConnectedNotSynced ==
    \E p \in Procs :
        /\ proc[p].op = "sync_request"
        /\ proc[p].input.action = "connect"
        /\ proc[p].pc = "done"
        /\ proc[p].outcome = "ok"
        /\ data_sources[proc[p].target].connection_state = "connected"
        /\ data_sources[proc[p].target].last_sync_status = "NULL"
        /\ data_sources[proc[p].target].last_sync_at = 0

(***************************************************************************)
(* C25  Overlapping event-appending requests do not conflict: with no      *)
(* failed request and valid dates, every such request that has finished    *)
(* reports success and its event is in the log with the content the        *)
(* handler builds from its input alone, and two requests finished side by  *)
(* side have written two different events.                                 *)
(***************************************************************************)
AppendingOps ==
    {"journal", "amend_journal", "amend_document", "visit_summary", "upload"}

ValidDates(input) ==
    /\ input.kind = "journal" => input.eventDateTime # 0
    /\ input.kind = "upload" => input.documentDate # 0

Content(e) ==
    [user_id |-> e.user_id, event_type |-> e.event_type,
     event_time |-> e.event_time, title |-> e.title, summary |-> e.summary,
     details |-> e.details]

AppendFinished(p) ==
    /\ proc[p].op \in AppendingOps
    /\ proc[p].pc = "done"
    /\ ValidDates(proc[p].input)

C25_ConcurrentAppendsDoNotConflict ==
    budget.failures = MaxFailures
    => /\ \A p \in Procs :
             AppendFinished(p)
             => /\ proc[p].outcome = "ok"
                /\ proc[p].eventId \in Ids(timeline_events)
                /\ \E row \in EventsToInsert(proc[p]) :
                      Content(timeline_events[proc[p].eventId]) = Content(row)
       /\ AppendFinished(1) /\ AppendFinished(2)
             => proc[1].eventId # proc[2].eventId

\* a journal submission and an amendment of the same user ran side by side
C25_JournalBesideAmendment ==
    /\ budget.failures = MaxFailures
    /\ AppendFinished(1) /\ AppendFinished(2)
    /\ proc[1].user = proc[2].user
    /\ {proc[1].op, proc[2].op} = {"journal", "amend_journal"}
    /\ Len(timeline_events) = 3

(***************************************************************************)
(* C26  Every job inserted with status pending eventually has status       *)
(* complete or failed.                                                     *)
(***************************************************************************)
C26_PendingJobsFinish ==
    \A i \in 1..MaxSeqOps :
        (Len(jobs) >= i /\ jobs[i].status = "pending")
        ~> (Len(jobs) >= i /\ jobs[i].status \in {"complete", "failed"})

(***************************************************************************)
(* C27  The current view of an amended event is built from the amendment   *)
(* filed last (the one with the greatest created_at) and the original      *)
(* alone: every view the page can show equals the view computed from that  *)
(* amendment, so no value of an earlier amendment appears in it.           *)
(***************************************************************************)
FiledLast(uid, id) ==
    {a \in Amendments(uid, id) :
        \A o \in Amendments(uid, id) : o.created_at <= a.created_at}

C27_OnlyLastAmendmentShows ==
    \A uid \in Users :
        \A e \in VisibleTimelineEvents(uid) :
            \A last \in FiledLast(uid, e.id) :
                \A view \in currentViews(uid, e) :
                    /\ view.title = currentView(e, last).title
                    /\ view.text = currentView(e, last).text

(***************************************************************************)
(* C28  When a call of getOrCreateDataSource makes its lookup in a state   *)
(* that has one or more rows with its (user_id, type, name), it goes on    *)
(* with the id of one of them and inserts nothing; and once a manual or    *)
(* upload key has a row, no step adds another row with that key.           *)
(***************************************************************************)
SourcesFor(table, uid, type, name) ==
    {r \in Range(table) :
        r.user_id = uid /\ r.type = type /\ r.name = name}

C28_ExistingSourceIsReused ==
    [][/\ \A p \in Procs :
            LET existing == SourcesFor(data_sources, proc[p].user,
                                       DataSourceType(proc[p].op),
                                       DataSourceName(proc[p].op))
            IN /\ proc[p].pc = "ds_select"
               /\ proc'[p] # proc[p]
               /\ existing # {}
               => /\ proc'[p].pc # "ds_insert"
                  /\ proc'[p].dataSourceId \in {r.id : r \in existing}
       /\ \A r \in Range(data_sources) :
            r.type \in {"manual", "upload"}
            => Cardinality(SourcesFor(data_sources', r.user_id, r.type, r.name))
                  = Cardinality(SourcesFor(data_sources, r.user_id, r.type,
                                           r.name))]_vars

(***************************************************************************)
(* C29  A demo sync that names a source id which is absent or is another   *)
(* user's row takes no step that changes a table, and ends with the one    *)
(* outcome not_found in both cases.                                        *)
(***************************************************************************)
NotOwnSource(me) ==
    \/ me.target \notin Ids(data_sources)
    \/ data_sources[me.target].user_id # me.user

C29_ForeignSyncWritesNothing ==
    [][\A p \in Procs :
          /\ proc[p].op = "demo_sync"
          /\ NotOwnSource(proc[p])
          /\ proc'[p] # proc[p]
          => /\ tables' = tables
             /\ proc'[p].pc \in {"done", "idle"}
             /\ proc'[p].pc = "done" => proc'[p].outcome = "not_found"]_vars

\* a sync of another user's source has been answered with not_found
C29_ForeignSourceNotFound ==
    \E p \in Procs :
        /\ proc[p].op = "demo_sync"
        /\ proc[p].pc = "done"
        /\ proc[p].outcome = "not_found"
        /\ proc[p].target \in Ids(data_sources)
        /\ data_sources[proc[p].target].user_id # proc[p].user
        /\ data_sources[proc[p].target].provider = "fasten"

(***************************************************************************)
(* C30  The step of a sync that inserts its events either appends exactly  *)
(* one external_event row per record of the batch, each of the calling     *)
(* user and each referencing the provenance row this sync created (method  *)
(* portal_import, on the synced source, referenced by no earlier event),   *)
(* or fails and appends nothing; a sync that reports success has exactly   *)
(* that batch in the log.                                                  *)
(***************************************************************************)
BatchOf(me, events) ==
    {e \in Range(events) :
        e.event_type = "external_event" /\ e.provenance_id = me.provenanceId}

C30_SyncAppendsWholeBatch ==
    [][\A p \in Procs :
          /\ proc[p].op = "demo_sync"
          /\ proc'[p] # proc[p]
          => LET me == proc[p]
                 n == Len(timeline_events)
             IN /\ me.pc = "sync_events" /\ proc'[p].pc = "sync_update"
                   => /\ Len(timeline_events') = n + Len(DEMO_EVENTS)
                      /\ SubSeq(timeline_events', 1, n) = timeline_events
                      /\ \A k \in 1..Len(DEMO_EVENTS) :
                            LET e == timeline_events'[n + k]
                            IN /\ e.event_type = "external_event"
                               /\ e.user_id = me.user
                               /\ e.provenance_id = me.provenanceId
                               /\ e.title = S(Title(DEMO_EVENTS[k].title))
                      /\ provenance[me.provenanceId].method = "portal_import"
                      /\ provenance[me.provenanceId].data_source_id = me.target
                      /\ \A e \in Range(timeline_events) :
                            e.provenance_id # me.provenanceId
                /\ me.pc = "sync_events" /\ proc'[p].pc # "sync_update"
                   => /\ timeline_events' = timeline_events
                      /\ proc'[p].outcome = "error"
                /\ me.pc # "sync_events"
                   => timeline_events' = timeline_events
                /\ proc'[p].pc = "done" /\ proc'[p].outcome = "ok"
                   => Cardinality(BatchOf(proc'[p], timeline_events'))
                         = Len(DEMO_EVENTS)
                /\ proc'[p].pc = "done" /\ proc'[p].outcome = "error"
                   => BatchOf(proc'[p], timeline_events') = {}]_vars

\* a sync has reported success on top of an earlier event of the user
C30_BatchImported ==
    \E p \in Procs :
        /\ proc[p].op = "demo_sync"
        /\ proc[p].pc = "done"
        /\ proc[p].outcome = "ok"
        /\ Len(timeline_events) > Len(DEMO_EVENTS)
        /\ Cardinality(BatchOf(proc[p], timeline_events)) = Len(DEMO_EVENTS)

====
